---- MODULE Spec2Model ----
(***************************************************************************)
(* Model of fs.c, the user file-system API of BFS: fsSeek, fsTell, fsSize, *)
(* fsRead and fsWrite acting on one open file, and fsOpen and fsCreate     *)
(* resolving file names.  The inode (size, block map), the directory, the  *)
(* open-file table (cursor) and the block device live in bfs.c / bio.c,    *)
(* which fs.c only calls; they are modelled from their contracts.  The     *)
(* block size is scaled down so that the byte contents of every block can  *)
(* be enumerated.                                                          *)
(***************************************************************************)
EXTENDS Integers, Sequences, FiniteSets, TLC

\* ------------------------------------------------------------------ bounds
BYTESPERBLOCK == 3      \* block size in bytes (set in bfs.h), scaled down
MaxBlocks == 3          \* blocks the allocator can give to the file
NumVals == 3            \* distinct byte values
MaxFiles == 2           \* inodes the directory has room for
MaxOps == 3             \* calls made on the descriptor in one run

\* ------------------------------------------------------- program constants
SEEK_SET == 0
SEEK_CUR == 1
SEEK_END == 2
MaxI32 == 2147483647
I8Max == 127

B == BYTESPERBLOCK

\* Byte counts passed to fsRead / fsWrite: nothing, part of a block, a whole
\* block, more than one block, more than two blocks.
MaxCount == 2 * B + 1
Counts == {0, 1, B, B + 1, MaxCount}

\* Offsets and whence values passed to fsSeek: a negative offset, a block
\* start, inside the first block, inside the second block; the three modes
\* and an unknown one.
SeekOffsets == {0 - 1, 0, 1, B + 1}
Whences == {SEEK_SET, SEEK_CUR, SEEK_END, SEEK_END + 1}

\* Seeds of the caller's write buffers.
Seeds == {0, 1}

\* Values of the bytes a call finds in memory it did not write: the caller's
\* read buffer, the uninitialised staging array, the free device blocks.
FoundVals == {0, NumVals - 1}

\* Marks a staging byte nothing was stored in.
Uninit == 0 - 1

Bytes == 0 .. (NumVals - 1)
MinI32 == (0 - MaxI32) - 1

\* Offsets of the device area the file's block map can resolve to: FBN 0 ..
\* MaxBlocks (the block after the last allocatable one holds stale bytes).
DiskBytes == (MaxBlocks + 1) * B
Offsets == 0 .. (DiskBytes - 1)

\* Caller's buffers: buf[i] of the buffer with the given seed.
Pattern(seed, i) == (seed + i) % NumVals

\* Capacity of the caller's read buffer: room for the count requested and for
\* whatever fsRead stores beyond it, so that every byte stored is seen.
OutCap == MaxCount + 2 * B

Min(a, b) == IF a <= b THEN a ELSE b
Max(a, b) == IF a >= b THEN a ELSE b

\* ------------------------------------------------------------ C arithmetic
\* i32 addition; a signed overflow wraps around as two's complement.
Add32(a, b) ==
  IF a > 0 /\ b > 0 /\ a > MaxI32 - b
    THEN (((a - MaxI32) - 1) + b) - MaxI32 - 1
    ELSE IF a < 0 /\ b < 0 /\ a < MinI32 - b
      THEN (((a + MaxI32) + 1) + b) + MaxI32 + 1
      ELSE a + b

\* Whether the i32 sum of a and b overflows (undefined behaviour in C).
Overflows32(a, b) ==
  \/ a > 0 /\ b > 0 /\ a > MaxI32 - b
  \/ a < 0 /\ b < 0 /\ a < MinI32 - b

\* i32 subtraction of non-negative sizes and cursors (cannot overflow).
Sub32(a, b) == a - b

\* C integer division and remainder truncate toward zero.
CDiv(a, b) ==
  IF a >= 0 \/ a % b = 0 THEN a \div b ELSE (a \div b) + 1
CMod(a, b) == a - b * CDiv(a, b)

\* Conversion of an int to i8 (8-bit signed).
ToI8(x) == ((x + 128) % 256) - 128

\* ------------------------------------------------- collaborators (bfs.c)
\* bfsRead(inum, fbn, buf): the block the file's map resolves fbn to.  An
\* FBN the map has no block for yields bytes that are not the file's.
BfsRead(data, fbn) ==
  [j \in 0 .. (B - 1) |->
     IF fbn >= 0 /\ fbn <= MaxBlocks THEN data[fbn * B + j] ELSE 0]

\* bfsExtend(inum, fbn): blocks 0 .. fbn are allocated; fails once the
\* storage is exhausted.
BfsExtendFails(st, fbn) == fbn >= st.cap
BfsExtend(nalloc, fbn) == Max(nalloc, fbn + 1)

\* bfsTell(fd) and bfsGetSize(inum).
BfsTell(st) == st.curs
BfsGetSize(st) == st.size

\* ------------------------------------------------------------------ fsSeek
\* fsSeek with SEEK_END measured from the cursor instead of the file size.
SeekTargetEndFromCursor(whence, offset, curs, size) ==
  CASE whence = SEEK_SET -> offset
    [] whence = SEEK_CUR -> Add32(curs, offset)
    [] whence = SEEK_END -> Add32(curs, offset)

\* The cursor fsSeek stores for a recognised whence.
SeekTarget(whence, offset, curs, size) ==
  CASE whence = SEEK_SET -> offset
    [] whence = SEEK_CUR -> Add32(curs, offset)
    [] whence = SEEK_END -> Add32(size, offset)

\* fsSeek without the test of the offset's sign.
SeekErrorUnsigned(offset, whence) ==
  IF whence \in {SEEK_SET, SEEK_CUR, SEEK_END} THEN "none" ELSE "EBADWHENCE"

\* The error fsSeek ends the process with (FATAL), if any.
SeekError(offset, whence) ==
  IF offset < 0
    THEN "EBADCURS"
    ELSE IF whence \in {SEEK_SET, SEEK_CUR, SEEK_END}
      THEN "none"
      ELSE "EBADWHENCE"

\* Whether the sum fsSeek computes overflows.
SeekOverflows(whence, offset, curs, size) ==
  \/ whence = SEEK_CUR /\ Overflows32(curs, offset)
  \/ whence = SEEK_END /\ Overflows32(size, offset)

\* fsSeek(fd, offset, whence): [status, err, curs, ret, ovf].
FsSeek(st, offset, whence) ==
  LET err == SeekError(offset, whence) IN
  IF err = "none"
    THEN [status |-> "ok", err |-> err, ret |-> 0,
          curs |-> SeekTarget(whence, offset, st.curs, BfsGetSize(st)),
          ovf |-> SeekOverflows(whence, offset, st.curs, BfsGetSize(st))]
    ELSE [status |-> "fatal", err |-> err, curs |-> st.curs, ret |-> 0,
          ovf |-> FALSE]

\* The outcomes of a call that ends with the given fsSeek: a signed overflow
\* wraps around or, in a build that traps it, kills the process.
SeekOutcomes(seek) ==
  IF seek.ovf THEN {seek.status, "crashed"} ELSE {seek.status}

\* fsTell(fd) and fsSize(fd).
FsTell(st) == BfsTell(st)
FsSize(st) == BfsGetSize(st)

\* ------------------------------------------------------------------ fsRead
\* memcpy(dst + at, src + from, len) into the caller's buffer: the buffer
\* afterwards.  A byte taken from outside the scratch block is garbage.
CopyOut(dst, at, src, from, len) ==
  [k \in DOMAIN dst |->
     IF k >= at /\ k < at + len
       THEN (IF from + (k - at) \in DOMAIN src THEN src[from + (k - at)] ELSE 0)
       ELSE dst[k]]

\* The re-adjustment with the cursor left out of the remaining byte count.
ClampNumbToSize(numb, c, fileSize) ==
  IF Add32(numb, c) > fileSize THEN fileSize ELSE numb

\* The byte count after the re-adjustment at end of file.
ClampNumb(numb, c, fileSize) ==
  IF Add32(numb, c) > fileSize THEN Sub32(fileSize, c) ELSE numb

\* The byte count with the first block's offset not taken off.
BytesToCopyWholeBlock(i, left, right, c, numb) ==
  IF i = right /\ CMod(numb, B) # 0 THEN CMod(numb, B) ELSE B

\* Offset in the scratch block and byte count copied for FBN i of the loop.
StartOffset(i, left, c) == IF i = left THEN CMod(c, B) ELSE 0
BytesToCopy(i, left, right, c, numb) ==
  IF i = right /\ CMod(numb, B) # 0
    THEN CMod(numb, B)
    ELSE B - StartOffset(i, left, c)

\* The loop over FBN i .. right.  acc = [out, offset, srcs, filled, calls,
\* copies]: the caller's buffer, the running offset into it, the file offsets
\* copied from, the buffer indices written, the block reads issued and, for
\* each memcpy, its offset in the scratch block and its length.
RECURSIVE ReadLoop(_, _, _, _, _, _, _)
ReadLoop(data, i, left, right, c, numb, acc) ==
  IF i > right
    THEN acc
    ELSE
      LET tempBuf == BfsRead(data, i)
          startOffset == StartOffset(i, left, c)
          bytesToCopy == BytesToCopy(i, left, right, c, numb)
      IN  ReadLoop(data, i + 1, left, right, c, numb,
            [out    |-> CopyOut(acc.out, acc.offset, tempBuf, startOffset, bytesToCopy),
             offset |-> acc.offset + bytesToCopy,
             srcs   |-> acc.srcs \cup
                          {i * B + startOffset + j : j \in 0 .. (bytesToCopy - 1)},
             filled |-> acc.filled \cup
                          {acc.offset + j : j \in 0 .. (bytesToCopy - 1)},
             calls  |-> Append(acc.calls, <<"bfsRead", i>>),
             copies |-> Append(acc.copies, <<startOffset, bytesToCopy>>)])

\* fsRead(fd, numb, buf) with the caller's buffer holding out0.  The result
\* gives the outcomes the call can have (more than one when the behaviour is
\* undefined), the cursor, the value returned, the buffer, and what was copied.
FsRead(st, numb0, out0) ==
  LET currCursor == BfsTell(st)
      left       == CDiv(currCursor, B)
      fileSize   == BfsGetSize(st)
      numb       == ClampNumb(numb0, currCursor, fileSize)
      right      == CDiv(Add32(currCursor, numb), B)
      seek       == FsSeek(st, numb, SEEK_CUR)
      acc0       == [out |-> out0, offset |-> 0, srcs |-> {}, filled |-> {},
                     calls |-> << >>, copies |-> << >>]
  IN
  IF left = right
    THEN
      LET tempBuf == BfsRead(st.data, left)
          startOffset == CMod(currCursor, B)
      IN  [outcomes |-> IF numb < 0
                          \* memcpy with a negative length: the process is
                          \* killed, or survives to the fatal fsSeek
                          THEN {"crashed"} \cup SeekOutcomes(seek)
                          ELSE SeekOutcomes(seek),
           curs   |-> seek.curs,
           ret    |-> numb,
           out    |-> CopyOut(out0, 0, tempBuf, startOffset, numb),
           total  |-> Max(numb, 0),
           srcs   |-> {currCursor + j : j \in 0 .. (numb - 1)},
           filled |-> 0 .. (numb - 1),
           calls  |-> << <<"bfsRead", left>> >>,
           copies |-> << <<startOffset, numb>> >>]
    ELSE
      LET acc == ReadLoop(st.data, left, left, right, currCursor, numb, acc0)
      IN  [outcomes |-> SeekOutcomes(seek),
           curs   |-> seek.curs,
           ret    |-> numb,
           out    |-> acc.out,
           total  |-> acc.offset,
           srcs   |-> acc.srcs,
           filled |-> acc.filled,
           calls  |-> acc.calls,
           copies |-> acc.copies]

\* ----------------------------------------------------------------- fsWrite
\* The new size taken from the byte count alone.
NewSizeFromCount(c, numb) == numb

\* A write of no bytes taken never to reach past the file size.
ExtendsNonEmpty(c, numb, fileSize) == numb > 0 /\ Add32(c, numb) > fileSize

\* The size set by every write, whether or not it reaches past the file size.
ExtendsAlways(c, numb, fileSize) == TRUE

\* Whether the write reaches past the file size, and the size it then sets.
Extends(c, numb, fileSize) == Add32(c, numb) > fileSize
NewSize(c, numb) == Add32(c, numb)

\* The caller's bytes copied to the start of the staging region.
StageOffsetZero(c) == 0

\* Offset in the staging region where the caller's bytes are copied.
StageOffset(c) == CMod(c, B)

\* The staging region with only the first affected block read into it.
PreReadFirstOnly(data, left, right, len, g) ==
  LET first == BfsRead(data, left)
  IN  [k \in 0 .. (len * B - 1) |-> IF k < B THEN first[k] ELSE g]

\* The staging region (len blocks, uninitialised stack bytes g) after the
\* first and, if len > 1, the last affected block were read into it.
PreRead(data, left, right, len, g) ==
  LET first == BfsRead(data, left)
      last  == BfsRead(data, right)
  IN  [k \in 0 .. (len * B - 1) |->
         IF k < B
           THEN first[k]
           ELSE IF len > 1 /\ k >= (len - 1) * B
             THEN last[k - (len - 1) * B]
             ELSE g]

\* memcpy(simulatedMem + at, buf, numb) from the caller's buffer with the
\* given seed; bytes that fall outside the region land elsewhere on the stack.
StageData(stage, at, seed, numb) ==
  [k \in DOMAIN stage |->
     IF k >= at /\ k < at + numb THEN Pattern(seed, k - at) ELSE stage[k]]

\* The device after the loop wrote FBN left .. right from the staging region
\* (a byte read beyond the region is stack garbage g).
WriteBack(data, stage, left, right, g) ==
  [off \in DOMAIN data |->
     IF CDiv(off, B) >= left /\ CDiv(off, B) <= right
       THEN (IF off - left * B \in DOMAIN stage THEN stage[off - left * B] ELSE g)
       ELSE data[off]]

\* fsWrite returning the byte count.
WriteRetCount(numb) == numb

\* The value fsWrite returns on success.
WriteRet(numb) == 0

\* The external calls of a write whose loop runs from the last FBN down.
WriteCallsDescending(grow, c, numb, left, right, len) ==
  (IF grow THEN << <<"bfsExtend", right>>, <<"bfsSetSize", NewSize(c, numb)>> >>
           ELSE << >>)
  \o << <<"bfsRead", left>> >>
  \o (IF len > 1 THEN << <<"bfsRead", right>> >> ELSE << >>)
  \o [k \in 1 .. Max(right - left + 1, 0) |-> <<"bioWrite", right - k + 1>>]
  \o << <<"fsSeek", numb>> >>

\* The external calls of one fsWrite, in order.
WriteCalls(grow, c, numb, left, right, len) ==
  (IF grow THEN << <<"bfsExtend", right>>, <<"bfsSetSize", NewSize(c, numb)>> >>
           ELSE << >>)
  \o << <<"bfsRead", left>> >>
  \o (IF len > 1 THEN << <<"bfsRead", right>> >> ELSE << >>)
  \o [k \in 1 .. Max(right - left + 1, 0) |-> <<"bioWrite", left + k - 1>>]
  \o << <<"fsSeek", numb>> >>

\* fsWrite(fd, numb, buf) with the caller's buffer of the given seed.
FsWrite(st, numb, seed, g) ==
  LET currCursor == BfsTell(st)
      left       == CDiv(currCursor, B)
      right      == CDiv(Add32(currCursor, numb), B)
      fileSize   == BfsGetSize(st)
      grow       == Extends(currCursor, numb, fileSize)
      size1      == IF grow THEN NewSize(currCursor, numb) ELSE fileSize
      nalloc1    == IF grow THEN BfsExtend(st.nalloc, right) ELSE st.nalloc
      len        == ToI8(right - left + 1)
      stage      == StageData(PreRead(st.data, left, right, len, g),
                              StageOffset(currCursor), seed, numb)
      seek       == FsSeek([st EXCEPT !.size = size1], numb, SEEK_CUR)
  IN
  IF grow /\ BfsExtendFails(st, right)
    THEN [outcomes |-> {"fatal"}, size |-> fileSize, nalloc |-> st.nalloc,
          data |-> st.data, curs |-> currCursor, ret |-> 0,
          calls |-> << <<"bfsExtend", right>> >>,
          left |-> left, right |-> right, len |-> 0]
    ELSE [outcomes |-> IF len # right - left + 1 \/ len <= 0
                         \* the array is too small for the span: the stack is
                         \* overrun, which kills the process or goes unnoticed
                         THEN {"crashed"} \cup SeekOutcomes(seek)
                         ELSE SeekOutcomes(seek),
          size   |-> size1,
          nalloc |-> nalloc1,
          data   |-> WriteBack(st.data, stage, left, right, g),
          curs   |-> seek.curs,
          ret    |-> WriteRet(numb),
          calls  |-> WriteCalls(grow, currCursor, numb, left, right, len),
          left   |-> left,
          right  |-> right,
          len    |-> len]

\* -------------------------------------------------------- fsOpen, fsCreate
\* File names (one more than the directory has room for) and inode numbers.
FileNames == 0 .. MaxFiles
Inums == 0 .. (MaxFiles - 1)

\* The value the directory reports, and fsOpen and fsCreate return, when no
\* file is found or can be made.
EFNF == 0 - 1

\* bfsLookupFile(fname): the file's inode number, or EFNF.
BfsLookupFile(d, fname) == d[fname]

\* bfsCreateFile(fname): the inode number of the file of that name, made in
\* a free inode if the directory has none of that name; EFNF if none is free.
BfsCreateFile(d, fname) ==
  LET free == {i \in Inums : \A f \in FileNames : d[f] # i} IN
  IF d[fname] # EFNF
    THEN [inum |-> d[fname], dir |-> d]
    ELSE IF free = {}
      THEN [inum |-> EFNF, dir |-> d]
      ELSE LET i == CHOOSE x \in free : \A y \in free : x <= y
           IN  [inum |-> i, dir |-> [d EXCEPT ![fname] = i]]

\* bfsInumToFd(inum): the descriptor of the open-file table entry of the
\* inode, taken into use if the inode had none, with one more reference.
BfsInumToFd(o, inum) ==
  IF \E k \in 1 .. Len(o) : o[k].inum = inum
    THEN LET k == CHOOSE j \in 1 .. Len(o) : o[j].inum = inum
         IN  [fd |-> k - 1, oft |-> [o EXCEPT ![k].refs = @ + 1]]
    ELSE [fd |-> Len(o), oft |-> Append(o, [inum |-> inum, refs |-> 1])]

\* The EFNF result passed on as if it were an inode number.
NotFoundNever(inum) == FALSE

\* The test fsOpen and fsCreate make of the inode number they were given.
NotFound(inum) == inum = EFNF

\* What fsOpen and fsCreate do with the inode number: [ret, oft, calls].
FdOrEfnf(o, inum) ==
  IF NotFound(inum)
    THEN [ret |-> EFNF, oft |-> o, calls |-> << >>]
    ELSE LET r == BfsInumToFd(o, inum)
         IN  [ret |-> r.fd, oft |-> r.oft, calls |-> << <<"bfsInumToFd", inum>> >>]

\* fsOpen(fname): [ret, inum, dir, oft, calls].
FsOpen(d, o, fname) ==
  LET inum == BfsLookupFile(d, fname)
      r == FdOrEfnf(o, inum)
  IN  [ret |-> r.ret, inum |-> inum, dir |-> d, oft |-> r.oft,
       calls |-> << <<"bfsLookupFile", fname>> >> \o r.calls]

\* fsCreate(fname): [ret, inum, dir, oft, calls].
FsCreate(d, o, fname) ==
  LET c == BfsCreateFile(d, fname)
      r == FdOrEfnf(o, c.inum)
  IN  [ret |-> r.ret, inum |-> c.inum, dir |-> c.dir, oft |-> r.oft,
       calls |-> << <<"bfsCreateFile", fname>> >> \o r.calls]

\* ------------------------------------------------------------ the program
VARIABLES
  size,     \* the inode's logical size in bytes (bfsGetSize / bfsSetSize)
  curs,     \* g_oft[ofte].curs, the cursor of the open file
  nalloc,   \* the blocks the file has: FBN 0 .. nalloc - 1
  data,     \* the bytes of the device blocks FBN 0 .. MaxBlocks resolve to
  cap,      \* the blocks the allocator can give the file before it is full
  dir,      \* the directory: the inode number of each file name, or EFNF
  oft,      \* the open-file table: the inode and reference count per entry
  status,   \* "ok", or how the process ended: "fatal" (FATAL), "crashed"
  last,     \* the last call: its arguments, the state before it, its results
  rt,       \* progress of a write / seek back / read of the same span
  nops      \* calls made so far

vars == <<size, curs, nalloc, data, cap, dir, oft, status, last, rt, nops>>

St == [size |-> size, curs |-> curs, nalloc |-> nalloc, data |-> data,
       cap |-> cap]

NoOut == [k \in 0 .. (OutCap - 1) |-> 0]

\* The record of a call, before its results are filled in.
Call(op, arg, whence, seed) ==
  [op |-> op, arg |-> arg, whence |-> whence, seed |-> seed,
   c0 |-> curs, s0 |-> size, a0 |-> nalloc, d0 |-> data,
   ret |-> 0, out0 |-> NoOut, out |-> NoOut, total |-> 0, srcs |-> {},
   filled |-> {}, calls |-> << >>, copies |-> << >>, err |-> "none",
   left |-> 0, right |-> 0, len |-> 0, inum |-> 0, dir0 |-> dir, oft0 |-> oft]

NoRt == [phase |-> 0, c |-> 0, n |-> 0, seed |-> 0]

\* The values the uninitialised bytes of fsWrite's staging array can have;
\* they make a difference only when one of them reaches the device.
StackBytes(st, numb, seed) ==
  IF \E off \in Offsets : FsWrite(st, numb, seed, Uninit).data[off] = Uninit
    THEN FoundVals
    ELSE {0}

\* A newly created file open on the descriptor: empty, no block allocated,
\* cursor 0, the only file of the directory.  The free blocks of the device
\* hold stale bytes, and the allocator has the given number of blocks for
\* the file.
InitCap(capacity) ==
  /\ cap = capacity
  /\ dir = [f \in FileNames |-> IF f = 0 THEN 0 ELSE EFNF]
  /\ oft = << [inum |-> 0, refs |-> 1] >>
  /\ size = 0
  /\ curs = 0
  /\ nalloc = 0
  /\ \E stale \in FoundVals : data = [off \in Offsets |-> Pattern(stale, 2 * off)]
  /\ status = "ok"
  /\ last = [op |-> "none", arg |-> 0, whence |-> 0, seed |-> 0,
             c0 |-> 0, s0 |-> 0, a0 |-> 0, d0 |-> data,
             ret |-> 0, out0 |-> NoOut, out |-> NoOut, total |-> 0,
             srcs |-> {}, filled |-> {}, calls |-> << >>, copies |-> << >>,
             err |-> "none", left |-> 0, right |-> 0, len |-> 0, inum |-> 0,
             dir0 |-> dir, oft0 |-> oft]
  /\ rt = NoRt
  /\ nops = 0

Init == InitCap(MaxBlocks)

\* The process has not ended and may make another call (of at most limit).
Running(limit) == status = "ok" /\ nops < limit

SeekCall(limit, offsets) ==
  /\ Running(limit)
  /\ \E offset \in offsets, whence \in Whences :
       LET r == FsSeek(St, offset, whence) IN
       /\ status' \in SeekOutcomes(r)
       /\ curs' = IF status' = "ok" THEN r.curs ELSE curs
       /\ last' = [Call("seek", offset, whence, 0) EXCEPT
                     !.ret = r.ret, !.err = r.err]
       /\ rt' = IF rt.phase = 1 /\ r.status = "ok" /\ whence = SEEK_SET
                   /\ offset = rt.c
                  THEN [rt EXCEPT !.phase = 2]
                  ELSE NoRt
  /\ nops' = nops + 1
  /\ UNCHANGED <<size, nalloc, data, cap, dir, oft>>

TellCall(limit) ==
  /\ Running(limit)
  /\ last' = [Call("tell", 0, 0, 0) EXCEPT !.ret = FsTell(St)]
  /\ rt' = NoRt
  /\ nops' = nops + 1
  /\ UNCHANGED <<size, curs, nalloc, data, cap, dir, oft, status>>

SizeCall(limit) ==
  /\ Running(limit)
  /\ last' = [Call("size", 0, 0, 0) EXCEPT !.ret = FsSize(St)]
  /\ rt' = NoRt
  /\ nops' = nops + 1
  /\ UNCHANGED <<size, curs, nalloc, data, cap, dir, oft, status>>

ReadCall(limit) ==
  /\ Running(limit)
  /\ \E numb \in Counts, fill \in FoundVals :
       LET out0 == [k \in 0 .. (OutCap - 1) |-> fill]
           r == FsRead(St, numb, out0)
       IN
       /\ status' \in r.outcomes
       /\ curs' = r.curs
       /\ last' = [Call("read", numb, 0, 0) EXCEPT
                     !.ret = r.ret, !.out0 = out0, !.out = r.out,
                     !.total = r.total, !.srcs = r.srcs, !.filled = r.filled,
                     !.calls = r.calls, !.copies = r.copies]
       /\ rt' = IF rt.phase = 2 /\ numb = rt.n
                  THEN [rt EXCEPT !.phase = 3]
                  ELSE NoRt
  /\ nops' = nops + 1
  /\ UNCHANGED <<size, nalloc, data, cap, dir, oft>>

WriteCall(limit, counts) ==
  /\ Running(limit)
  /\ \E numb \in counts, seed \in Seeds :
     \E g \in StackBytes(St, numb, seed) :
       LET r == FsWrite(St, numb, seed, g) IN
       /\ status' \in r.outcomes
       /\ size' = r.size
       /\ nalloc' = r.nalloc
       /\ data' = r.data
       /\ curs' = r.curs
       /\ last' = [Call("write", numb, 0, seed) EXCEPT
                     !.ret = r.ret, !.calls = r.calls, !.left = r.left,
                     !.right = r.right, !.len = r.len]
       /\ rt' = IF status' = "ok"
                  THEN [phase |-> 1, c |-> curs, n |-> numb, seed |-> seed]
                  ELSE NoRt
  /\ nops' = nops + 1
  /\ UNCHANGED <<cap, dir, oft>>

OpenCall(limit) ==
  /\ Running(limit)
  /\ \E fname \in FileNames :
       LET r == FsOpen(dir, oft, fname) IN
       /\ dir' = r.dir
       /\ oft' = r.oft
       /\ last' = [Call("open", fname, 0, 0) EXCEPT
                     !.ret = r.ret, !.inum = r.inum, !.calls = r.calls]
  /\ rt' = NoRt
  /\ nops' = nops + 1
  /\ UNCHANGED <<size, curs, nalloc, data, cap, status>>

\* The files made here are empty, as is the one that exists.
CreateCall(limit) ==
  /\ Running(limit)
  /\ \E fname \in FileNames :
       LET r == FsCreate(dir, oft, fname) IN
       /\ dir' = r.dir
       /\ oft' = r.oft
       /\ last' = [Call("create", fname, 0, 0) EXCEPT
                     !.ret = r.ret, !.inum = r.inum, !.calls = r.calls]
  /\ rt' = NoRt
  /\ nops' = nops + 1
  /\ UNCHANGED <<size, curs, nalloc, data, cap, status>>

Seek == SeekCall(MaxOps, SeekOffsets)
Tell == TellCall(MaxOps)
Size == SizeCall(MaxOps)
Read == ReadCall(MaxOps)
Write == WriteCall(MaxOps, Counts)

Next == Seek \/ Tell \/ Size \/ Read \/ Write

Spec == Init /\ [][Next]_vars

\* The same program making one more call: a write from inside a block, read
\* back, takes four calls on a new file (seek, write, seek, read).
LongOps == MaxOps + 1

NextLong ==
  \/ SeekCall(LongOps, SeekOffsets)
  \/ TellCall(LongOps)
  \/ SizeCall(LongOps)
  \/ ReadCall(LongOps)
  \/ WriteCall(LongOps, Counts)

SpecLong == Init /\ [][NextLong]_vars

\* The same program at the ends of its value ranges: a seek offset of
\* INT_MAX, and a device and a write large enough to span more blocks than
\* an i8 counts.
WideBlocks == I8Max + 1
WideOffsets == SeekOffsets \cup {MaxI32}
WideCounts == Counts \cup {I8Max * B}

InitWide == InitCap(WideBlocks)

NextWide ==
  \/ SeekCall(MaxOps, WideOffsets)
  \/ TellCall(MaxOps)
  \/ SizeCall(MaxOps)
  \/ ReadCall(MaxOps)
  \/ WriteCall(MaxOps, WideCounts)

SpecWide == InitWide /\ [][NextWide]_vars

\* The calls that resolve a file name to a descriptor.
NextDir == OpenCall(LongOps) \/ CreateCall(LongOps)

SpecDir == Init /\ [][NextDir]_vars

\* ------------------------------------------------------------------ claims
IsRead == last.op = "read"
IsWrite == last.op = "write"
IsSeek == last.op = "seek"

\* The bytes of the caller's write buffer of the last call.
BufA(i) == Pattern(last.seed, i)

\* C1: fsWrite of n bytes at cursor c, fsSeek(c, SEEK_SET), fsRead of n bytes
\* returns n and fills buf[0 .. n-1] with the bytes written.
RoundTrip ==
  rt.phase = 3 =>
    /\ status = "ok"
    /\ last.ret = rt.n
    /\ \A i \in 0 .. (rt.n - 1) : last.out[i] = Pattern(rt.seed, i)

\* C2: fsRead with the cursor at or beyond the file size returns 0, copies
\* nothing, leaves the cursor where it was and does not abort.
ReadAtOrBeyondEof ==
  (IsRead /\ last.c0 >= last.s0) =>
    /\ status = "ok"
    /\ last.ret = 0
    /\ last.out = last.out0
    /\ curs = last.c0

\* C3: fsRead with cursor c <= size returns min(n, size - c), never more than
\* n, and when fewer than n bytes remain it leaves the cursor at the file size.
ClampedRead ==
  (IsRead /\ last.c0 <= last.s0) =>
    /\ status = "ok"
    /\ last.ret = Min(last.arg, last.s0 - last.c0)
    /\ last.ret <= last.arg
    /\ (last.s0 - last.c0 < last.arg => curs = last.s0)

ClampedReadWitness ==
  /\ IsRead /\ status = "ok"
  /\ last.c0 < last.s0
  /\ last.s0 - last.c0 < last.arg
  /\ last.ret = last.s0 - last.c0
  /\ curs = size

\* C4: the value fsRead returns is the number of bytes it copied into the
\* caller's buffer: they fill buf[0 .. ret-1] and nothing beyond.
ReadCopiesWhatItReturns ==
  (IsRead /\ last.c0 <= last.s0) =>
    /\ last.total = last.ret
    /\ last.filled = 0 .. (last.ret - 1)

\* C5: every byte fsRead copies to the caller comes from a file offset in
\* [c, min(c + n, size)).
ReadStaysInsideFile ==
  (IsRead /\ last.c0 <= last.s0) =>
    last.srcs \subseteq last.c0 .. (Min(last.c0 + last.arg, last.s0) - 1)

\* C6 as stated: fsWrite returns the number of bytes written, numb.
WriteReturnsCount == (IsWrite /\ status = "ok") => last.ret = last.arg

\* C6 amended: fsWrite returns 0 on success, for every numb >= 0.
WriteReturnsZero == (IsWrite /\ status = "ok") => last.ret = 0

WriteReturnsZeroWitness == IsWrite /\ status = "ok" /\ last.arg > 0 /\ last.ret = 0

\* C7: after fsWrite of numb bytes at cursor c the file holds buf[i] at offset
\* c + i for every i < numb.
WriteCommitsData ==
  (IsWrite /\ status = "ok") =>
    \A i \in 0 .. (last.arg - 1) : data[last.c0 + i] = BufA(i)

\* A write over three blocks that starts and ends inside a block.
WriteCommitsDataWitness ==
  /\ IsWrite /\ status = "ok"
  /\ CMod(last.c0, B) # 0
  /\ CMod(last.c0 + last.arg, B) # 0
  /\ CDiv(last.c0 + last.arg, B) - CDiv(last.c0, B) >= 2
  /\ \E i \in 0 .. (last.arg - 1) : last.d0[last.c0 + i] # BufA(i)

\* C8: fsWrite leaves every byte at an offset outside [c, c + numb) as it was
\* on the device before the call.
WritePreservesOutside ==
  (IsWrite /\ status = "ok") =>
    \A off \in Offsets :
      (off < last.c0 \/ off >= last.c0 + last.arg) => data[off] = last.d0[off]

\* An overwrite inside the file that starts and ends inside a block, whose
\* neighbours in both boundary blocks differ from the bytes written.
WritePreservesOutsideWitness ==
  /\ IsWrite /\ status = "ok" /\ last.arg > 0
  /\ last.c0 + last.arg < last.s0
  /\ CMod(last.c0, B) # 0
  /\ CMod(last.c0 + last.arg, B) # 0
  /\ CDiv(last.c0 + last.arg, B) > CDiv(last.c0, B)
  /\ data[last.c0 - 1] # data[last.c0]
  /\ data[last.c0 + last.arg] # data[last.c0 + last.arg - 1]

\* C9: after fsWrite at cursor c on a file of size s, fsSize gives c + numb
\* if c + numb > s and s otherwise; no call makes the size smaller.
WriteExtendsSize ==
  /\ (IsWrite /\ status = "ok") =>
       FsSize(St) = (IF last.c0 + last.arg > last.s0
                       THEN last.c0 + last.arg ELSE last.s0)
  /\ size >= last.s0

\* A write from beyond the end of a non-empty file.
WriteExtendsSizeWitness ==
  /\ IsWrite /\ status = "ok"
  /\ last.s0 > 0 /\ last.c0 > last.s0 /\ last.arg > 0
  /\ size = last.c0 + last.arg

\* C10: fsSeek with offset >= 0 returns 0 and fsTell then gives offset
\* (SEEK_SET), the previous cursor + offset (SEEK_CUR) or the file size +
\* offset (SEEK_END); fsTell leaves the cursor alone.
SeekTell ==
  /\ (IsSeek /\ last.arg >= 0 /\ last.whence \in {SEEK_SET, SEEK_CUR, SEEK_END}) =>
       /\ status = "ok"
       /\ last.ret = 0
       /\ FsTell(St) = (CASE last.whence = SEEK_SET -> last.arg
                          [] last.whence = SEEK_CUR -> last.c0 + last.arg
                          [] last.whence = SEEK_END -> size + last.arg)
  /\ last.op = "tell" => (last.ret = last.c0 /\ curs = last.c0)

\* fsSeek from the end of a non-empty file whose cursor is elsewhere.
SeekTellWitness ==
  /\ IsSeek /\ status = "ok" /\ last.whence = SEEK_END
  /\ last.arg > 0 /\ size > 0 /\ last.c0 # size
  /\ curs = size + last.arg

\* C11: fsSeek fails fatally with EBADCURS whenever the offset is negative,
\* whatever the whence, and fails fatally when the whence is not SEEK_SET,
\* SEEK_CUR or SEEK_END (with EBADWHENCE, the offset having passed its test);
\* in both cases the cursor is as it was before the call.
SeekRejects ==
  IsSeek =>
    /\ last.arg < 0 =>
         (status = "fatal" /\ last.err = "EBADCURS" /\ curs = last.c0)
    /\ last.whence \notin {SEEK_SET, SEEK_CUR, SEEK_END} =>
         /\ status = "fatal"
         /\ curs = last.c0
         /\ last.arg >= 0 => last.err = "EBADWHENCE"

\* fsSeek with an unknown whence on a file whose cursor has moved.
SeekRejectsWitness ==
  /\ IsSeek /\ status = "fatal" /\ last.err = "EBADWHENCE"
  /\ last.arg > 0 /\ last.c0 > 0 /\ curs = last.c0

\* C12: the cursor of an open file is never negative, whatever sequence of
\* fsSeek, fsRead and fsWrite calls was made with 32-bit signed values.
CursorNonNegative == status = "ok" => curs >= 0

\* C13: after a successful fsWrite the cursor is the previous cursor plus
\* numb; after a successful fsRead it is the previous cursor plus the number
\* of bytes copied into the caller's buffer.
CursorAdvance ==
  /\ (IsWrite /\ status = "ok") => curs = last.c0 + last.arg
  /\ (IsRead /\ status = "ok") => curs = last.c0 + last.total

\* C14: fsOpen and fsCreate return EFNF, without ending the process and
\* without a call of bfsInumToFd, whenever the lookup or the creation reports
\* EFNF; otherwise they return the descriptor bound to the inode found or
\* made.
OpenOrCreate ==
  last.op \in {"open", "create"} =>
    /\ status = "ok"
    /\ last.op = "open" => last.inum = BfsLookupFile(last.dir0, last.arg)
    /\ last.op = "create" => last.inum = BfsCreateFile(last.dir0, last.arg).inum
    /\ IF last.inum = EFNF
         THEN /\ last.ret = EFNF
              /\ oft = last.oft0
              /\ \A k \in 1 .. Len(last.calls) : last.calls[k][1] # "bfsInumToFd"
         ELSE /\ last.ret \in 0 .. (Len(oft) - 1)
              /\ oft[last.ret + 1].inum = last.inum
              /\ Cardinality({k \in 1 .. Len(last.calls) :
                                last.calls[k] = <<"bfsInumToFd", last.inum>>}) = 1

\* fsCreate of a new name when every inode is taken and its file open.
OpenOrCreateWitness ==
  /\ last.op = "create" /\ last.inum = EFNF /\ last.ret = EFNF
  /\ \E f \in FileNames : dir[f] = EFNF
  /\ Len(oft) = MaxFiles

CallsOf(name) == {k \in 1 .. Len(last.calls) : last.calls[k][1] = name}
ArgsOf(name) ==
  LET Named(e) == e[1] = name
      sel == SelectSeq(last.calls, Named)
  IN  [k \in 1 .. Len(sel) |-> sel[k][2]]

\* C16: one fsWrite does, in this order: if cursor + numb > size, extend the
\* file through FBN floor((cursor + numb) / B) and then set the size; read the
\* first and, if it is another, the last affected block; write each FBN from
\* floor(cursor / B) to floor((cursor + numb) / B) exactly once, ascending,
\* and no other; advance the cursor.  No block is written before the reads,
\* and the extension is asked for exactly when cursor + numb > size.
WriteSteps ==
  IsWrite =>
    LET grow  == last.c0 + last.arg > last.s0
        left  == CDiv(last.c0, B)
        right == CDiv(last.c0 + last.arg, B)
        n     == Len(last.calls)
    IN
    /\ (CallsOf("bfsExtend") # {}) <=> grow
    /\ grow => last.calls[1] = <<"bfsExtend", right>>
    /\ status = "ok" =>
         /\ CallsOf("bfsExtend") = (IF grow THEN {1} ELSE {})
         /\ CallsOf("bfsSetSize") = (IF grow THEN {2} ELSE {})
         /\ grow => last.calls[2] = <<"bfsSetSize", last.c0 + last.arg>>
         /\ ArgsOf("bfsRead") = (IF right # left THEN <<left, right>> ELSE <<left>>)
         /\ ArgsOf("bioWrite") = [k \in 1 .. (right - left + 1) |-> left + k - 1]
         /\ \A r \in CallsOf("bfsRead") :
              /\ \A e \in CallsOf("bfsExtend") \cup CallsOf("bfsSetSize") : e < r
              /\ \A w \in CallsOf("bioWrite") : r < w
         /\ CallsOf("fsSeek") = {n}
         /\ last.calls[n] = <<"fsSeek", last.arg>>
         /\ curs = last.c0 + last.arg

\* A write from inside the file's last block that grows the file by more
\* than a block: every step is taken, with a block between first and last.
WriteStepsWitness ==
  /\ IsWrite /\ status = "ok"
  /\ last.s0 > 0 /\ last.c0 + last.arg > last.s0
  /\ CDiv(last.c0 + last.arg, B) >= CDiv(last.c0, B) + 2
  /\ Len(last.calls) >= 8

\* C17: the staging region of fsWrite spans exactly right - left + 1 blocks,
\* for every cursor >= 0 and numb >= 0, also when that is more than 127.
StagingSpan ==
  (IsWrite /\ status # "fatal") =>
    last.len = CDiv(Add32(last.c0, last.arg), B) - CDiv(last.c0, B) + 1

\* C18: fsWrite(fd, 0, buf) leaves the size, the cursor and every byte of
\* the file as they were, wherever the cursor is, also beyond the size.
ZeroWriteNoOp ==
  (IsWrite /\ last.arg = 0 /\ status = "ok") =>
    (size = last.s0 /\ curs = last.c0 /\ data = last.d0)

\* C18, as the code has it: fsWrite(fd, 0, buf) leaves the cursor and every
\* byte as they were; it leaves the size as it was when the cursor is not
\* beyond it, and sets the size to the cursor when the cursor is beyond it.
ZeroWriteKeeps ==
  (IsWrite /\ last.arg = 0 /\ status = "ok") =>
    /\ curs = last.c0
    /\ data = last.d0
    /\ size = (IF last.c0 > last.s0 THEN last.c0 ELSE last.s0)

\* A write of no bytes with the cursor beyond the end of a non-empty file.
ZeroWriteKeepsWitness ==
  /\ IsWrite /\ last.arg = 0 /\ status = "ok"
  /\ last.s0 > 0 /\ last.c0 > last.s0
  /\ size = last.c0

\* C19: on a file that was created empty, in a run of fsSeek, fsRead and
\* fsWrite calls that does not abort, every FBN given to a block read, a
\* block resolution or a block write is one an earlier extension allocated.
AllocatedOnly ==
  (status = "ok" /\ last.op \in {"read", "write"}) =>
    \A k \in CallsOf("bfsRead") \cup CallsOf("bioWrite") :
      last.calls[k][2] \in 0 .. (nalloc - 1)

\* C20: with 0 <= cursor <= size and numb >= 0 no copy of fsRead or fsWrite
\* leaves its scratch buffer: every copy of fsRead out of the one-block
\* buffer has startOffset + bytesToCopy <= B (in the one-block case, cursor
\* mod B plus the clamped numb), and in fsWrite (cursor mod B) + numb <=
\* (right - left + 1) * B, the caller's bytes covering every block of the
\* staging region between its first and its last.
ScratchInBounds ==
  (last.c0 >= 0 /\ last.c0 <= last.s0 /\ last.arg >= 0) =>
    /\ IsRead =>
         \A k \in 1 .. Len(last.copies) :
           /\ last.copies[k][1] >= 0
           /\ last.copies[k][2] >= 0
           /\ last.copies[k][1] + last.copies[k][2] <= B
    /\ (IsWrite /\ status # "fatal") =>
         LET at   == StageOffset(last.c0)
             span == last.right - last.left + 1
         IN  /\ at >= 0
             /\ at + last.arg <= span * B
             /\ \A j \in 1 .. (span - 2) :
                  at <= j * B /\ (j + 1) * B <= at + last.arg

\* A read from inside a block that goes on into the next block.
ScratchInBoundsWitness ==
  /\ IsRead /\ status = "ok"
  /\ last.c0 <= last.s0 /\ CMod(last.c0, B) # 0
  /\ Len(last.copies) >= 2
  /\ last.copies[1] = <<CMod(last.c0, B), B - CMod(last.c0, B)>>

====
